---- MODULE Spec2Model ----
(***************************************************************************)
(* A model of radar.js, the script of the Defence-Radar dashboard: the     *)
(* in-memory target list, the views derived from it (map markers, target   *)
(* table, status panel, log), the command interpreter and the timer-driven *)
(* radar sweep.                                                            *)
(*                                                                         *)
(* Text is modelled as sequences of one-character strings, so that         *)
(* formatting (toFixed, template literals), case folding (toLowerCase) and *)
(* the string-to-number coercion done by Math.max / Math.min are computed  *)
(* character by character.  A JavaScript Number that came out of parsing a *)
(* one-decimal string is held as an integer count of tenths.               *)
(* The log's "[time]" prefix (the wall clock) is left out of log entries.  *)
(***************************************************************************)
EXTENDS Integers, Sequences, FiniteSets, TLC

(* ------------------------------ bounds -------------------------------- *)
\* Math.random() streams are drawn from seeds 0..MaxSeed.
MaxSeed == 2
\* At most MaxSweeps interval timers exist at a time.
MaxSweeps == 2
\* The log area holds at most MaxLog entries.
MaxLog == 4
\* Math.random() returns r / UnitDen for an integer r in 0..UnitDen-1.
UnitDen == 64

(* ------------------------- program constants -------------------------- *)
MinTargets == 8
CountSpread == 3
MaxDistance == 200
MaxVelocity == 400
SweepStep == 3
FullTurn == 360
Radius == 230

Seeds == 0..MaxSeed
Slots == 1..MaxSweeps

(* ------------------------------- text --------------------------------- *)
Digits == <<"0", "1", "2", "3", "4", "5", "6", "7", "8", "9">>

Digit(d) == Digits[d + 1]

DigitValue(c) == (CHOOSE i \in 1..10 : Digits[i] = c) - 1

\* String(n) for a non-negative integer n, as `${n}` produces it.
RECURSIVE NatToString(_)
NatToString(n) ==
  IF n < 10 THEN <<Digit(n)>>
  ELSE NatToString(n \div 10) \o <<Digit(n % 10)>>

\* (num/den).toFixed(1) for num/den >= 0: the nearest count of tenths, the
\* larger one on a tie, printed with exactly one fraction digit.
ToFixed1(num, den) ==
  LET n == (20 * num + den) \div (2 * den)
  IN  NatToString(n \div 10) \o <<".">> \o <<Digit(n % 10)>>

RECURSIVE DigitsValue(_)
DigitsValue(s) ==
  IF s = <<>> THEN 0
  ELSE 10 * DigitsValue(SubSeq(s, 1, Len(s) - 1)) + DigitValue(s[Len(s)])

\* ToNumber(s) for a decimal literal with at most one fraction digit, in tenths.
StringToNumber(s) ==
  LET dots == {i \in 1..Len(s) : s[i] = "."}
  IN  IF dots = {} THEN 10 * DigitsValue(s)
      ELSE LET p == CHOOSE i \in dots : TRUE
           IN  10 * DigitsValue(SubSeq(s, 1, p - 1))
                 + DigitsValue(SubSeq(s, p + 1, Len(s)))

\* String(x) for a Number x held in tenths: 100.0 prints as "100", 9.5 as "9.5".
NumberToString(x) ==
  IF x % 10 = 0 THEN NatToString(x \div 10)
  ELSE NatToString(x \div 10) \o <<".">> \o <<Digit(x % 10)>>

\* UTF-16 code units of the characters that occur in formatted numbers.
CharCode(c) == IF c = "." THEN 46 ELSE 48 + DigitValue(c)

\* a < b as JavaScript compares two strings (code unit by code unit).
RECURSIVE StringLess(_, _)
StringLess(a, b) ==
  IF b = <<>> THEN FALSE
  ELSE IF a = <<>> THEN TRUE
  ELSE IF a[1] # b[1] THEN CharCode(a[1]) < CharCode(b[1])
  ELSE StringLess(Tail(a), Tail(b))

\* Math.max over Numbers.
RECURSIVE NumMax(_)
NumMax(xs) ==
  IF Len(xs) = 1 THEN xs[1]
  ELSE LET m == NumMax(Tail(xs)) IN IF xs[1] > m THEN xs[1] ELSE m

RECURSIVE NumMin(_)
NumMin(xs) ==
  IF Len(xs) = 1 THEN xs[1]
  ELSE LET m == NumMin(Tail(xs)) IN IF xs[1] < m THEN xs[1] ELSE m

\* The greatest / smallest of a sequence of strings in string order.
RECURSIVE StringMax(_)
StringMax(ss) ==
  IF Len(ss) = 1 THEN ss[1]
  ELSE LET m == StringMax(Tail(ss)) IN IF StringLess(m, ss[1]) THEN ss[1] ELSE m

MathMaxLexical(args) == StringToNumber(StringMax(args))

\* Math.max(...args) on string arguments: each is coerced with ToNumber first.
MathMax(args) == NumMax([i \in 1..Len(args) |-> StringToNumber(args[i])])

\* Math.min(...args) on string arguments.
MathMin(args) == NumMin([i \in 1..Len(args) |-> StringToNumber(args[i])])

(* ------------------------------ random -------------------------------- *)
\* The k-th value (k = 0, 1, ...) of the Math.random() stream of a seed, as
\* the numerator r of r / UnitDen in [0, 1).
Random(seed, k) == ((seed + 1) * 101 + k * 37 + k * k * 13) % UnitDen

\* Math.floor(Math.random() * 3)
RandomBelow3(r) == (CountSpread * r) \div UnitDen

(* --------------------------- case folding ----------------------------- *)
Uppers == <<"A", "B", "C", "D", "E", "F", "G", "H", "I", "J", "K", "L", "M",
            "N", "O", "P", "Q", "R", "S", "T", "U", "V", "W", "X", "Y", "Z">>

Lowers == <<"a", "b", "c", "d", "e", "f", "g", "h", "i", "j", "k", "l", "m",
            "n", "o", "p", "q", "r", "s", "t", "u", "v", "w", "x", "y", "z">>

LowerChar(c) ==
  IF \E i \in 1..Len(Uppers) : Uppers[i] = c
  THEN Lowers[CHOOSE i \in 1..Len(Uppers) : Uppers[i] = c]
  ELSE c

ToLowerCaseIdentity(s) == s

\* s.toLowerCase()
ToLowerCase(s) == [i \in 1..Len(s) |-> LowerChar(s[i])]

ScanWord == <<"s", "c", "a", "n">>
ReportWord == <<"r", "e", "p", "o", "r", "t">>
AnalyzeWord == <<"a", "n", "a", "l", "y", "z", "e">>
ClearWord == <<"c", "l", "e", "a", "r">>
HelpWord == <<"h", "e", "l", "p">>

\* Values typed into the command input field.
Inputs ==
  { ScanWord, ReportWord, AnalyzeWord, ClearWord, HelpWord,
    <<"S", "C", "A", "N">>, <<"S", "c", "a", "n">>,
    <<"R", "E", "P", "O", "R", "T">>, <<"r", "e", "p", "o", "r", "T">>,
    <<"A", "n", "a", "l", "y", "z", "e">>,
    <<"C", "L", "E", "A", "R">>, <<"c", "l", "E", "a", "r">>,
    <<"x", "y", "z">>, <<>>, <<"H", "E", "L", "P">>,
    <<"s", "c", "a", "n", " ">>, <<" ", "s", "c", "a", "n">>,
    <<"s", "c", "a", "n", " ", "n", "o", "w">>, <<"s", "c", "a">>,
    <<"c", "l", "e", "a", "r", "s">>, <<"S", "C", "A", "N", "!">> }

(* ------------------------------- scan --------------------------------- *)
\* One target, built from the four Math.random() values its literal draws.
NewTarget(i, rd, rv, rlat, rlng) ==
  [ id       |-> i + 1,
    distance |-> ToFixed1(MaxDistance * rd, UnitDen),
    velocity |-> ToFixed1(MaxVelocity * rv, UnitDen),
    lat      |-> 20 * UnitDen + 10 * rlat,
    lng      |-> 78 * UnitDen + 10 * rlng ]

\* The loop bound 8 + Math.floor(Math.random() * 3), evaluated on every test.
LoopBound(r) == MinTargets + RandomBelow3(r)

\* The for loop of scan(): the test draws one random value, the body four.
\* Returns the targets pushed and the number of values drawn.
RECURSIVE ScanLoop(_, _, _, _)
ScanLoop(seed, i, k, acc) ==
  IF i < LoopBound(Random(seed, k))
  THEN ScanLoop(seed, i + 1, k + 5,
         Append(acc, NewTarget(i, Random(seed, k + 1), Random(seed, k + 2),
                               Random(seed, k + 3), Random(seed, k + 4))))
  ELSE [targets |-> acc, drawn |-> k + 1]

\* L.marker([lat, lng]).addTo(markerLayer).bindPopup(...)
Marker(t) ==
  [ lat |-> t.lat, lng |-> t.lng,
    popup |-> [ text |-> "Target #{0}<br>Vel: {1} m/s<br>Dist: {2} km",
                args |-> <<NatToString(t.id), t.velocity, t.distance>> ] ]

Markers(ts) == [i \in 1..Len(ts) |-> Marker(ts[i])]

\* One <tr> of the target table: its three <td> cells.
TableRow(t) ==
  [id |-> NatToString(t.id), distance |-> t.distance, velocity |-> t.velocity]

\* updateTable(): the table body is emptied and gets one row per target.
UpdateTable(ts) == [i \in 1..Len(ts) |-> TableRow(ts[i])]

Weathers == <<"Clear", "Cloudy", "Rainy">>

\* updateSystemStatus(): the count and four random ambient readings.
UpdateSystemStatus(ts, seed, k) ==
  [ activeTargets |-> NatToString(Len(ts)),
    wind        |-> ToFixed1(10 * UnitDen + 20 * Random(seed, k), UnitDen),
    weather     |-> Weathers[RandomBelow3(Random(seed, k + 1)) + 1],
    cpuLoad     |-> ToFixed1(30 * UnitDen + 60 * Random(seed, k + 2), UnitDen),
    temperature |-> ToFixed1(25 * UnitDen + 10 * Random(seed, k + 3), UnitDen) ]

(* ------------------------------- log ---------------------------------- *)
Msg(text, args) == [text |-> text, args |-> args]

MsgInitialized == Msg("System Initialized", <<>>)
MsgScanning == Msg("Scanning environment...", <<>>)
MsgDetected(n) == Msg("{0} targets detected.", <<NatToString(n)>>)
MsgNoReport == Msg("No targets to report.", <<>>)
MsgReported == Msg("Report downloaded as radar_report.csv", <<>>)
MsgNoData == Msg("No data to analyze.", <<>>)
MsgAnalysis(maxSpeed, closest) ==
  Msg("Analysis complete: Fastest {0} m/s, Closest {1} km.",
      <<NumberToString(maxSpeed), NumberToString(closest)>>)
MsgReset == Msg("System reset.", <<>>)

(* ------------------------------ report -------------------------------- *)
CsvHeader ==
  <<"I", "D", ",", "D", "i", "s", "t", "a", "n", "c", "e", "(", "k", "m", ")",
    ",", "V", "e", "l", "o", "c", "i", "t", "y", "(", "m", "/", "s", ")", "\n">>

\* `${t.id},${t.distance},${t.velocity}\n`
CsvRow(t) ==
  NatToString(t.id) \o <<",">> \o t.distance \o <<",">> \o t.velocity \o <<"\n">>

RECURSIVE CsvRows(_)
CsvRows(ts) == IF ts = <<>> THEN <<>> ELSE CsvRow(ts[1]) \o CsvRows(Tail(ts))

CsvHeaderOnly(ts) == CsvHeader

\* The text generateReport() builds: the header, then a row per target.
Csv(ts) == CsvHeader \o CsvRows(ts)

(* --------------------------- handler effects -------------------------- *)
NoEffect == [kind |-> "none", text |-> "", mime |-> "", content |-> <<>>]
Thrown(name) == [kind |-> "error", text |-> name, mime |-> "", content |-> <<>>]
HelpText ==
  "Available commands:\nscan - detect targets\nreport - download target data\nanalyze - run analytics\nclear - reset logs\nhelp - show this message"
Alert(text) == [kind |-> "alert", text |-> text, mime |-> "", content |-> <<>>]
Download(name, mime, content) ==
  [kind |-> "download", text |-> name, mime |-> mime, content |-> content]

(* ------------------------------- state -------------------------------- *)
VARIABLES
  L,            \* whether the map library's global L is defined
  loaded,       \* whether window.onload has run
  map,          \* the map object, once created
  markerLayer,  \* the marker layer group, once created, and its markers
  logArea,      \* the entries of the log element, oldest first
  targets,      \* the target store
  targetTable,  \* the rows of the target table body
  status,       \* the text of the status panel fields
  canvas,       \* what the radar canvas shows
  sweeps,       \* the interval timers of animateRadar and their closures
  effect        \* what the latest handler did outside the page: a download,
                \* an alert, an uncaught exception, or nothing

vars == <<L, loaded, map, markerLayer, logArea, targets, targetTable, status,
          canvas, sweeps, effect>>

NoMap == [defined |-> FALSE, center |-> <<0, 0>>, zoom |-> 0]
NoLayer == [defined |-> FALSE, layers |-> <<>>]
Blank == [kind |-> "blank", angle |-> 0, radius |-> 0]
NoSweep == [state |-> "unused", angle |-> 0, draws |-> 0]

\* The script has run: its globals are set, the page shows its static text.
\* The map library is either already there or has just been requested.
Init ==
  /\ L \in BOOLEAN
  /\ loaded = FALSE
  /\ map = NoMap
  /\ markerLayer = NoLayer
  /\ logArea = <<>>
  /\ targets = <<>>
  /\ targetTable = <<>>
  /\ status = [activeTargets |-> <<"0">>, wind |-> <<>>, weather |-> "",
               cpuLoad |-> <<>>, temperature |-> <<>>]
  /\ canvas = Blank
  /\ sweeps = [s \in Slots |-> NoSweep]
  /\ effect = NoEffect

\* The dynamically requested map library finishes loading.
LeafletLoaded ==
  /\ ~L
  /\ L' = TRUE
  /\ UNCHANGED <<loaded, map, markerLayer, logArea, targets, targetTable,
                 status, canvas, sweeps, effect>>

\* window.onload: creates the map and the marker layer; L.map throws a
\* ReferenceError when the library is not there.
OnLoad ==
  /\ ~loaded
  /\ loaded' = TRUE
  /\ IF L
     THEN /\ Len(logArea) + 1 <= MaxLog
          /\ map' = [defined |-> TRUE, center |-> <<205937, 789629>>, zoom |-> 5]
          /\ markerLayer' = [defined |-> TRUE, layers |-> <<>>]
          /\ logArea' = Append(logArea, MsgInitialized)
          /\ effect' = NoEffect
     ELSE /\ effect' = Thrown("ReferenceError")
          /\ UNCHANGED <<map, markerLayer, logArea>>
  /\ UNCHANGED <<L, targets, targetTable, status, canvas, sweeps>>

(* ------------------------------- sweep -------------------------------- *)
FreeSlots(sw) == {s \in Slots : sw[s].state # "running"}

\* The greatest angle any closure holds (0 when no sweep has run yet).
RECURSIVE MaxAngle(_, _)
MaxAngle(sw, n) ==
  IF n = 0 THEN 0
  ELSE LET m == MaxAngle(sw, n - 1)
       IN  IF sw[n].angle > m THEN sw[n].angle ELSE m

StartSweepStale(sw) ==
  [state |-> "running", angle |-> MaxAngle(sw, MaxSweeps), draws |-> 0]

\* let angle = 0 and the setInterval call of animateRadar()
StartSweep(sw) == [state |-> "running", angle |-> 0, draws |-> 0]

AnimateRadarCancelling(sw) ==
  LET s == CHOOSE x \in FreeSlots(sw) : \A y \in FreeSlots(sw) : x <= y
  IN  [x \in Slots |->
         IF x = s THEN StartSweep(sw)
         ELSE IF sw[x].state = "running"
              THEN [sw[x] EXCEPT !.state = "stopped"] ELSE sw[x]]

\* animateRadar(): a new closure with angle 0 and a new interval timer; the
\* timers already running are left alone.
AnimateRadar(sw) ==
  LET s == CHOOSE x \in FreeSlots(sw) : \A y \in FreeSlots(sw) : x <= y
  IN  [sw EXCEPT ![s] = StartSweep(sw)]

SweepDoneLate(angle) == angle > FullTurn

\* if (angle >= 360) clearInterval(sweep)
SweepDone(angle) == angle >= FullTurn

\* What one run of the interval callback draws: the circle and the sweep line.
Draw(angle) == [kind |-> "sweep", angle |-> angle, radius |-> Radius]

\* One run of the interval callback of the timer in slot s.
Tick(s) ==
  /\ sweeps[s].state = "running"
  /\ canvas' = Draw(sweeps[s].angle)
  /\ LET a == sweeps[s].angle + SweepStep
     IN  sweeps' = [sweeps EXCEPT ![s] =
           [ state |-> IF SweepDone(a) THEN "stopped" ELSE "running",
             angle |-> a,
             draws |-> sweeps[s].draws + 1 ]]
  /\ UNCHANGED <<L, loaded, map, markerLayer, logArea, targets, targetTable,
                 status, effect>>

(* ------------------------------ commands ------------------------------ *)
\* scan(): throws a TypeError at markerLayer.clearLayers() while the marker
\* layer does not exist; otherwise replaces the batch and refreshes the views.
Scan(seed) ==
  IF ~markerLayer.defined
  THEN /\ Len(logArea) + 1 <= MaxLog
       /\ logArea' = Append(logArea, MsgScanning)
       /\ targets' = <<>>
       /\ effect' = Thrown("TypeError")
       /\ UNCHANGED <<L, loaded, map, markerLayer, targetTable, status,
                      canvas, sweeps>>
  ELSE LET run == ScanLoop(seed, 0, 0, <<>>)
       IN  /\ Len(logArea) + 2 <= MaxLog
           /\ FreeSlots(sweeps) # {}
           /\ targets' = run.targets
           /\ markerLayer' = [markerLayer EXCEPT !.layers = Markers(run.targets)]
           /\ targetTable' = UpdateTable(run.targets)
           /\ sweeps' = AnimateRadar(sweeps)
           /\ status' = UpdateSystemStatus(run.targets, seed, run.drawn)
           /\ logArea' = logArea \o <<MsgScanning, MsgDetected(Len(run.targets))>>
           /\ effect' = NoEffect
           /\ UNCHANGED <<L, loaded, map, canvas>>

\* generateReport()
GenerateReport ==
  /\ Len(logArea) + 1 <= MaxLog
  /\ IF Len(targets) = 0
     THEN /\ logArea' = Append(logArea, MsgNoReport)
          /\ effect' = NoEffect
     ELSE /\ effect' = Download("radar_report.csv", "text/csv", Csv(targets))
          /\ logArea' = Append(logArea, MsgReported)
  /\ UNCHANGED <<L, loaded, map, markerLayer, targets, targetTable, status,
                 canvas, sweeps>>

\* analyze()
Analyze ==
  /\ Len(logArea) + 1 <= MaxLog
  /\ IF Len(targets) = 0
     THEN logArea' = Append(logArea, MsgNoData)
     ELSE LET maxSpeed == MathMax([i \in 1..Len(targets) |-> targets[i].velocity])
              closest == MathMin([i \in 1..Len(targets) |-> targets[i].distance])
          IN  logArea' = Append(logArea, MsgAnalysis(maxSpeed, closest))
  /\ effect' = NoEffect
  /\ UNCHANGED <<L, loaded, map, markerLayer, targets, targetTable, status,
                 canvas, sweeps>>

ClearedKeepingTargets(ts) == ts

\* targets = [] in clearLogs()
ClearedTargets(ts) == <<>>

\* clearLogs(): throws a TypeError at markerLayer.clearLayers(), after the log
\* and the canvas are wiped, while the marker layer does not exist.
ClearLogs ==
  /\ canvas' = [kind |-> "cleared", angle |-> 0, radius |-> 0]
  /\ IF ~markerLayer.defined
     THEN /\ logArea' = <<>>
          /\ effect' = Thrown("TypeError")
          /\ UNCHANGED <<markerLayer, targets>>
     ELSE /\ markerLayer' = [markerLayer EXCEPT !.layers = <<>>]
          /\ targets' = ClearedTargets(targets)
          /\ logArea' = <<MsgReset>>
          /\ effect' = NoEffect
  /\ UNCHANGED <<L, loaded, map, targetTable, status, sweeps>>

\* showHelp()
ShowHelp ==
  /\ effect' = Alert(HelpText)
  /\ UNCHANGED <<L, loaded, map, markerLayer, logArea, targets, targetTable,
                 status, canvas, sweeps>>

\* executeCommand() with the input field holding inp.
ExecuteCommand(inp) ==
  LET cmd == ToLowerCase(inp)
  IN  IF cmd = ScanWord THEN \E seed \in Seeds : Scan(seed)
      ELSE IF cmd = ReportWord THEN GenerateReport
      ELSE IF cmd = AnalyzeWord THEN Analyze
      ELSE IF cmd = ClearWord THEN ClearLogs
      ELSE ShowHelp

Command == \E inp \in Inputs : ExecuteCommand(inp)

TimerTick == \E s \in Slots : Tick(s)

\* The page with its timers not yet run: page load and commands.
Next == LeafletLoaded \/ OnLoad \/ Command

Spec == Init /\ [][Next]_vars

\* The sweep: page load, the scan and clear commands, and the timers.
SweepNext ==
  \/ OnLoad
  \/ ExecuteCommand(ScanWord)
  \/ ExecuteCommand(ClearWord)
  \/ TimerTick

SweepSpec == Init /\ [][SweepNext]_vars

\* Every running interval timer eventually gets its callback run.
FairSweepSpec == SweepSpec /\ \A s \in Slots : WF_vars(Tick(s))

(* ------------------------- properties: helpers ------------------------ *)
\* The pieces of s between occurrences of sep (a trailing sep ends the last piece).
RECURSIVE Split(_, _)
Split(s, sep) ==
  IF s = <<>> THEN <<>>
  ELSE LET idx == {i \in 1..Len(s) : s[i] = sep}
       IN  IF idx = {} THEN <<s>>
           ELSE LET p == CHOOSE i \in idx : \A j \in idx : i <= j
                IN  <<SubSeq(s, 1, p - 1)>> \o Split(SubSeq(s, p + 1, Len(s)), sep)

LastEntry(entries) == entries[Len(entries)]

\* inp is w with some of its letters in upper case.
IsCaseVariant(inp, w) ==
  /\ Len(inp) = Len(w)
  /\ \A i \in 1..Len(w) :
       \/ inp[i] = w[i]
       \/ \E k \in 1..Len(Lowers) : Lowers[k] = w[i] /\ Uppers[k] = inp[i]

CommandWords == {ScanWord, ReportWord, AnalyzeWord, ClearWord}

ScanStep == ExecuteCommand(ScanWord)
ReportStep == ExecuteCommand(ReportWord)
AnalyzeStep == ExecuteCommand(AnalyzeWord)
ClearStep == ExecuteCommand(ClearWord)

\* A batch as scan() is meant to leave it: 8 to 10 targets with ids 1..count.
IsBatch(ts) ==
  /\ Len(ts) \in 8..10
  /\ \A i \in 1..Len(ts) : ts[i].id = i

StoreWellFormed == targets = <<>> \/ IsBatch(targets)

Running == {s \in Slots : sweeps[s].state = "running"}

(* ------------------------------- claims ------------------------------- *)
\* C1: in every reachable state the target store is empty or holds 8 to 10
\* targets whose ids in store order are 1, 2, ..., count; and every scan leaves
\* such a batch, all of it newly generated.
C1_EveryScanLeavesBatch ==
  /\ []StoreWellFormed
  /\ [][ScanStep => IsBatch(targets')]_vars

\* C2: generateReport() on an empty store starts no download and appends
\* exactly one log notice; on a store of n >= 1 targets it starts one download
\* named radar_report.csv whose text is the header line followed by exactly n
\* lines "id,distance,velocity", one per target in store order; the store is
\* left unchanged either way.
C2_Report ==
  [][ReportStep =>
       /\ targets' = targets
       /\ IF targets = <<>>
          THEN /\ effect'.kind # "download"
               /\ logArea' = Append(logArea, MsgNoReport)
          ELSE LET lines == Split(effect'.content, "\n")
               IN  /\ effect'.kind = "download"
                   /\ effect'.text = "radar_report.csv"
                   /\ effect'.content[Len(effect'.content)] = "\n"
                   /\ Len(lines) = Len(targets) + 1
                   /\ lines[1] = SubSeq(CsvHeader, 1, Len(CsvHeader) - 1)
                   /\ \A i \in 1..Len(targets) :
                        Split(lines[i + 1], ",") =
                          <<NatToString(targets[i].id), targets[i].distance,
                            targets[i].velocity>>
     ]_vars

\* C2 witness: a report of a non-empty store has been downloaded.
C2_Witness ==
  /\ effect.kind = "download"
  /\ Len(targets) >= 8
  /\ Len(Split(effect.content, "\n")) = Len(targets) + 1

\* C3: analyze() on an empty store only logs a notice; on a non-empty store
\* the logged maximum velocity is the numerically greatest velocity of the
\* batch and the logged minimum distance the numerically smallest distance;
\* the store is left unchanged.
C3_Analyze ==
  [][AnalyzeStep =>
       /\ targets' = targets
       /\ IF targets = <<>>
          THEN logArea' = Append(logArea, MsgNoData)
          ELSE LET e == LastEntry(logArea')
                   fastest == StringToNumber(e.args[1])
                   closest == StringToNumber(e.args[2])
                   N == 1..Len(targets)
               IN  /\ Len(logArea') = Len(logArea) + 1
                   /\ e.text = MsgAnalysis(0, 0).text
                   /\ \E i \in N : StringToNumber(targets[i].velocity) = fastest
                   /\ \A i \in N : StringToNumber(targets[i].velocity) <= fastest
                   /\ \E i \in N : StringToNumber(targets[i].distance) = closest
                   /\ \A i \in N : StringToNumber(targets[i].distance) >= closest
     ]_vars

\* C3 witness: an analysis has been logged for a batch in which the string
\* order and the numeric order of the velocities disagree about the maximum.
C3_Witness ==
  /\ targets # <<>>
  /\ logArea # <<>>
  /\ LastEntry(logArea).text = MsgAnalysis(0, 0).text
  /\ LET vs == [i \in 1..Len(targets) |-> targets[i].velocity]
     IN  StringToNumber(StringMax(vs)) # MathMax(vs)

\* C4: the clear command leaves the store empty; with the store empty,
\* analyze and report take their empty-store paths; and only a scan makes the
\* store non-empty again.
C4_Clear ==
  [][ /\ ClearStep => targets' = <<>>
      /\ (targets = <<>> /\ AnalyzeStep) =>
           (logArea' = Append(logArea, MsgNoData) /\ targets' = <<>>)
      /\ (targets = <<>> /\ ReportStep) =>
           /\ logArea' = Append(logArea, MsgNoReport)
           /\ effect'.kind # "download"
           /\ targets' = <<>>
      /\ (targets = <<>> /\ targets' # <<>>) => ScanStep
    ]_vars

\* C4 witness: analyze has run right after a clear that discarded a batch
\* (the table still shows the batch).
C4_Witness ==
  /\ targets = <<>>
  /\ targetTable # <<>>
  /\ logArea = <<MsgReset, MsgNoData>>

\* C5: any case variant of scan, report, analyze or clear acts as the
\* lowercase word; every other input shows help and changes neither the
\* target store nor the log.
C5_Dispatch ==
  [][\A inp \in Inputs :
       ExecuteCommand(inp) =>
         IF \E w \in CommandWords : IsCaseVariant(inp, w)
         THEN LET w == CHOOSE x \in CommandWords : IsCaseVariant(inp, x)
              IN  ExecuteCommand(w) /\ effect'.kind # "alert"
         ELSE /\ effect' = Alert(HelpText)
              /\ targets' = targets
              /\ logArea' = logArea
    ]_vars

\* C5 witness: help is on show over a store and a log that a scan filled.
C5_Witness ==
  /\ effect.kind = "alert"
  /\ targets # <<>>
  /\ Len(logArea) >= 3

\* C6: a sweep starts at angle 0, advances 3 degrees per tick, redraws on
\* each of its first 120 ticks and stops on the 120th; with every running
\* timer eventually ticking, every sweep eventually stops, and a stopped sweep
\* has drawn exactly 120 times.
C6_SweepTerminates ==
  /\ [](\A s \in Slots :
          /\ sweeps[s].state = "running" =>
               (sweeps[s].draws < 120 /\ sweeps[s].angle = 3 * sweeps[s].draws)
          /\ sweeps[s].state = "stopped" => sweeps[s].draws = 120)
  /\ [][\A s \in Slots :
          /\ Tick(s) =>
               /\ canvas' = Draw(3 * sweeps[s].draws)
               /\ sweeps'[s].angle = sweeps[s].angle + 3
               /\ sweeps'[s].draws = sweeps[s].draws + 1
          /\ (sweeps[s].state # "running" /\ sweeps'[s].state = "running") =>
               (sweeps'[s].angle = 0 /\ sweeps'[s].draws = 0)
          /\ sweeps[s].state = "stopped" => sweeps'[s].draws \in {0, 120}
       ]_vars
  /\ \A s \in Slots :
       (sweeps[s].state = "running") ~> (sweeps[s].state = "stopped")

\* C6 witness: a sweep has stopped after its 120th redraw, which drew 357.
C6_Witness ==
  /\ \E s \in Slots : sweeps[s].state = "stopped" /\ sweeps[s].draws = 120
  /\ canvas = Draw(357)

\* C7: scan never fails: every scan completes all of its steps, ending with
\* the "targets detected" log entry and a new batch in the store.
C7_ScanNeverFails ==
  [][ScanStep =>
       /\ effect'.kind # "error"
       /\ targets' # <<>>
       /\ LastEntry(logArea') = MsgDetected(Len(targets'))
    ]_vars

\* C8 (as stated): the angle of every animation run is within [0, 360) in
\* every reachable state.
C8_AngleBelowFullTurn ==
  \A s \in Slots :
    sweeps[s].state # "unused" => (0 <= sweeps[s].angle /\ sweeps[s].angle < 360)

\* C8 (amended): the angle of every animation run is within [0, 360]; it is
\* below 360 while the sweep runs, so every angle drawn is within [0, 360),
\* and is 360 exactly when the sweep has stopped; each run starts at 0.
C8_AngleRange ==
  /\ [](\A s \in Slots :
          /\ sweeps[s].angle \in 0..360
          /\ sweeps[s].state = "running" => sweeps[s].angle < 360
          /\ sweeps[s].state = "stopped" <=> sweeps[s].angle = 360)
  /\ [](canvas.kind = "sweep" => canvas.angle \in 0..359)
  /\ [][\A s \in Slots :
          (sweeps[s].state # "running" /\ sweeps'[s].state = "running") =>
            sweeps'[s].angle = 0
       ]_vars

\* C8 witness: one run has stopped at 360 while a later run is under way.
C8_Witness ==
  \E s, t \in Slots :
    /\ sweeps[s].state = "stopped" /\ sweeps[s].angle = 360
    /\ sweeps[t].state = "running" /\ sweeps[t].angle > 0

\* C9: a scan during a sweep starts one more sweep and leaves the running
\* ones as they are; a tick of one sweep changes no other sweep; each sweep
\* counts its own 120 ticks.
C9_IndependentSweeps ==
  /\ [][ /\ (ScanStep /\ markerLayer.defined) =>
              /\ \A s \in Running : sweeps'[s] = sweeps[s]
              /\ \E s \in Slots \ Running :
                   /\ sweeps'[s] = [state |-> "running", angle |-> 0, draws |-> 0]
                   /\ \A t \in Slots \ {s} : sweeps'[t] = sweeps[t]
         /\ \A s \in Slots :
              Tick(s) => \A t \in Slots \ {s} : sweeps'[t] = sweeps[t]
       ]_vars
  /\ [](\A s \in Slots :
          /\ sweeps[s].state = "running" =>
               (sweeps[s].draws < 120 /\ sweeps[s].angle = 3 * sweeps[s].draws)
          /\ sweeps[s].state = "stopped" => sweeps[s].draws = 120)

\* C9 witness: two sweeps run at once, at different angles.
C9_Witness ==
  \E s, t \in Running :
    /\ s # t
    /\ sweeps[s].angle > sweeps[t].angle
    /\ sweeps[t].angle > 0

\* C10: the number of map markers, the number of table rows and the displayed
\* active-target count all equal the number of targets in the store.
C10_ViewsAgree ==
  /\ Len(markerLayer.layers) = Len(targets)
  /\ Len(targetTable) = Len(targets)
  /\ status.activeTargets = NatToString(Len(targets))

====
